---- MODULE Spec2Model ----
(***************************************************************************)
(* Model of rag_processor.py: the ingestion and indexing pipeline          *)
(* (process_rag, load_data_sources, recursive_file_check, file_load,       *)
(* adjust_string and the __main__ job) over a small file system, a URL     *)
(* list and one persistence directory.                                     *)
(*                                                                         *)
(* A text is a sequence of characters (one-element strings, or the names   *)
(* KA, DAKUTEN, GA, EMOJI for characters outside ASCII).                   *)
(***************************************************************************)
EXTENDS Integers, Sequences, FiniteSets, TLC

--------------------------------------------------------------------------
(* Bounds of the model *)

\* the largest number of records of the .csv file of an environment
MaxRows == 2

\* the largest number of runs of the job in one behaviour
MaxBegins == 3

\* the runs of process_rag (two, so that two can overlap)
Runs == {1, 2}

--------------------------------------------------------------------------
(* Texts and paths *)

SEP == "/"
DOT == "."
NL == "\n"

Max(S) == CHOOSE x \in S : \A y \in S : y <= x

\* str.rfind(c): the last index of c in s, 0 when there is none
rfind(s, c) ==
    LET I == {i \in 1..Len(s) : s[i] = c}
    IN IF I = {} THEN 0 ELSE Max(I)

\* os.path.splitext: the extension starts at the last dot after the last
\* separator, unless only dots precede it in the file name
splitext(p) ==
    LET sepIndex == rfind(p, SEP)
        dotIndex == rfind(p, DOT)
        named == {i \in (sepIndex + 1)..(dotIndex - 1) : p[i] # DOT}
    IN IF dotIndex > sepIndex /\ named # {}
       THEN <<SubSeq(p, 1, dotIndex - 1), SubSeq(p, dotIndex, Len(p))>>
       ELSE <<p, <<>>>>

\* os.path.join(path, file)
join(path, file) ==
    IF file # <<>> /\ file[1] = SEP THEN file
    ELSE IF path = <<>> \/ path[Len(path)] = SEP THEN path \o file
    ELSE path \o <<SEP>> \o file

RECURSIVE JoinTexts(_, _)
\* sep.join(texts)
JoinTexts(sep, texts) ==
    IF texts = <<>> THEN <<>>
    ELSE IF Len(texts) = 1 THEN texts[1]
    ELSE texts[1] \o sep \o JoinTexts(sep, Tail(texts))

RECURSIVE Flatten(_)
\* the concatenation of a sequence of sequences
Flatten(ss) == IF ss = <<>> THEN <<>> ELSE ss[1] \o Flatten(Tail(ss))

--------------------------------------------------------------------------
(* Documents *)

\* a metadata value is a string or an integer
StrV(s) == [t |-> "str", s |-> s, n |-> 0]
IntV(n) == [t |-> "int", s |-> <<>>, n |-> n]

\* langchain.schema.Document(page_content, metadata)
Document(page_content, metadata) ==
    [page_content |-> page_content, metadata |-> metadata]

--------------------------------------------------------------------------
(* Configuration (constants.py) *)

TXT == <<".", "t", "x", "t">>
CSV == <<".", "c", "s", "v">>
PDF == <<".", "p", "d", "f">>

\* ct.SUPPORTED_EXTENSIONS: extension -> loader
SUPPORTED_EXTENSIONS ==
    (PDF :> "PyMuPDFLoader") @@ (CSV :> "CSVLoader") @@ (TXT :> "TextLoader")

\* ct.CHUNK_SIZE, ct.CHUNK_OVERLAP, ct.SEARCH_K
CHUNK_SIZE == 3
CHUNK_OVERLAP == 1
SEARCH_K == 5

--------------------------------------------------------------------------
(* Environments: a file system under the configured root, and the URL list *)

Dir(entries) == [isdir |-> TRUE, entries |-> entries, recs |-> <<>>]
File(recs) == [isdir |-> FALSE, entries |-> <<>>, recs |-> recs]

\* the i-th record of a tabular file
Row(i) ==
    CASE i % 3 = 1 -> <<"a">>
      [] i % 3 = 2 -> <<"KA", "DAKUTEN", NL, "b">>
      [] OTHER -> <<"EMOJI", "c">>

Rows(n) == [i \in 1..n |-> Row(i)]

D == <<"d">>
A_TXT == <<"a", ".", "t", "x", "t">>
B_CSV == <<"b", ".", "c", "s", "v">>
C_PDF == <<"c", ".", "p", "d", "f">>
E_CSV_UPPER == <<"e", ".", "C", "S", "V">>
DOT_CSV == <<".", "c", "s", "v">>
Z_CSV == <<"z", ".", "c", "s", "v">>
S_DIR == <<"s">>
T_DIR == <<"t">>
URL_U == <<"u">>
URL_V == <<"v">>

\* a nested tree: d/{a.txt, s/t/{c.pdf, e.CSV}, b.csv with n records}
EnvTree(n) ==
    [root |-> D,
     fs |-> (D :> Dir(<<A_TXT, S_DIR, B_CSV>>))
         @@ (join(D, A_TXT) :> File(<<<<"a", NL, "b", "b", "b">>>>))
         @@ (join(D, S_DIR) :> Dir(<<T_DIR>>))
         @@ (join(join(D, S_DIR), T_DIR) :> Dir(<<C_PDF, E_CSV_UPPER>>))
         @@ (join(join(join(D, S_DIR), T_DIR), C_PDF) :> File(<<<<"p">>, <<"EMOJI">>>>))
         @@ (join(join(join(D, S_DIR), T_DIR), E_CSV_UPPER) :> File(<<<<"x">>>>))
         @@ (join(D, B_CSV) :> File(Rows(n))),
     urls |-> <<URL_U, URL_V, URL_U>>]

\* the root is itself a .csv file with n records; no URL
EnvFile(n) ==
    [root |-> Z_CSV,
     fs |-> (Z_CSV :> File(Rows(n))),
     urls |-> <<>>]

\* no supported file at all: d/{.csv, s/}; no URL
EnvBare ==
    [root |-> D,
     fs |-> (D :> Dir(<<DOT_CSV, S_DIR>>))
         @@ (join(D, DOT_CSV) :> File(<<<<"h">>>>))
         @@ (join(D, S_DIR) :> Dir(<<>>)),
     urls |-> <<>>]

\* an empty root directory and one URL
EnvPage ==
    [root |-> D,
     fs |-> (D :> Dir(<<>>)),
     urls |-> <<URL_V>>]

Envs == {EnvTree(n) : n \in 0..MaxRows} \cup {EnvFile(n) : n \in 0..MaxRows}
            \cup {EnvBare}

\* os.path.isdir
isdir(env, path) == path \in DOMAIN env.fs /\ env.fs[path].isdir

\* os.listdir
listdir(env, path) == env.fs[path].entries

\* the messages of the exceptions the external capabilities raise
Errors == {"e1", "e2"}

\* loader.load() of the loader a supported extension maps to
LoaderLoad(loader, env, path) ==
    LET recs == env.fs[path].recs
    IN CASE loader = "CSVLoader" ->
              [i \in 1..Len(recs) |->
                  Document(recs[i], [source |-> StrV(path), row |-> IntV(i - 1)])]
         [] loader = "PyMuPDFLoader" ->
              [i \in 1..Len(recs) |->
                  Document(recs[i], [source |-> StrV(path), page |-> IntV(i - 1)])]
         [] OTHER ->
              <<Document(JoinTexts(<<NL>>, recs), [source |-> StrV(path)])>>

\* WebBaseLoader(web_url).load(): one document for the page
WebLoad(web_url) ==
    <<Document(<<"w">> \o web_url \o <<NL, "EMOJI">>, [source |-> StrV(web_url)])>>

--------------------------------------------------------------------------
(* file_load *)

Lower(c) == CASE c = "C" -> "c" [] c = "S" -> "s" [] c = "V" -> "v" [] OTHER -> c

\* file_load with one of three slips: the extension compared without regard
\* to case, the loader's exception swallowed, the .csv records kept apart
file_load_With(env, path, docs_all, outcome, anyCase, swallow, perRecord) ==
    LET ext == splitext(path)[2]
        file_extension == IF anyCase THEN [i \in 1..Len(ext) |-> Lower(ext[i])] ELSE ext
    IN IF file_extension \in DOMAIN SUPPORTED_EXTENSIONS
       THEN IF outcome # "ok"
            THEN [docs_all |-> docs_all,
                  raised |-> IF swallow THEN "none" ELSE outcome,
                  loaded |-> <<path>>]
            ELSE LET docs == LoaderLoad(SUPPORTED_EXTENSIONS[file_extension], env, path)
                     combined_text ==
                         JoinTexts(<<NL>>, [i \in 1..Len(docs) |-> docs[i].page_content])
                 IN IF file_extension = CSV /\ ~perRecord
                    THEN [docs_all |->
                              Append(docs_all,
                                     Document(combined_text, [source |-> StrV(path)])),
                          raised |-> "none", loaded |-> <<path>>]
                    ELSE [docs_all |-> docs_all \o docs,
                          raised |-> "none", loaded |-> <<path>>]
       ELSE [docs_all |-> docs_all, raised |-> "none", loaded |-> <<>>]

file_load_AnyCase(env, path, docs_all, outcome) ==
    file_load_With(env, path, docs_all, outcome, TRUE, FALSE, FALSE)

file_load_Swallow(env, path, docs_all, outcome) ==
    file_load_With(env, path, docs_all, outcome, FALSE, TRUE, FALSE)

file_load_PerRecord(env, path, docs_all, outcome) ==
    file_load_With(env, path, docs_all, outcome, FALSE, FALSE, TRUE)

\* file_load(path, docs_all), the loader's outcome being "ok" or the message of
\* the exception it raises.  raised: "none" or the message that propagates;
\* loaded: the paths a loader was invoked on.
file_load(env, path, docs_all, outcome) ==
    LET file_extension == splitext(path)[2]
    IN IF file_extension \in DOMAIN SUPPORTED_EXTENSIONS
       THEN IF outcome # "ok"
            THEN [docs_all |-> docs_all, raised |-> outcome, loaded |-> <<path>>]
            ELSE LET docs == LoaderLoad(SUPPORTED_EXTENSIONS[file_extension], env, path)
                     combined_text ==
                         JoinTexts(<<NL>>, [i \in 1..Len(docs) |-> docs[i].page_content])
                 IN IF file_extension = CSV
                    THEN [docs_all |->
                              Append(docs_all,
                                     Document(combined_text, [source |-> StrV(path)])),
                          raised |-> "none", loaded |-> <<path>>]
                    ELSE [docs_all |-> docs_all \o docs,
                          raised |-> "none", loaded |-> <<path>>]
       ELSE [docs_all |-> docs_all, raised |-> "none", loaded |-> <<>>]

--------------------------------------------------------------------------
(* recursive_file_check, one call at a time: the pending calls are a stack  *)
(* of paths, the next call on top                                          *)

\* the entries of a directory taken last first
recursive_file_check_Reversed(env, stack, docs_all, outcome) ==
    LET path == Head(stack)
    IN IF isdir(env, path)
       THEN LET files == listdir(env, path)
                n == Len(files)
            IN [stack |-> [i \in 1..n |-> join(path, files[n + 1 - i])] \o Tail(stack),
                docs_all |-> docs_all, raised |-> "none",
                visited |-> <<>>, loaded |-> <<>>]
       ELSE LET res == file_load(env, path, docs_all, outcome)
            IN [stack |-> Tail(stack),
                docs_all |-> res.docs_all, raised |-> res.raised,
                visited |-> <<path>>, loaded |-> res.loaded]

recursive_file_check(env, stack, docs_all, outcome) ==
    LET path == Head(stack)
    IN IF isdir(env, path)
       THEN LET files == listdir(env, path)
            IN [stack |-> [i \in 1..Len(files) |-> join(path, files[i])] \o Tail(stack),
                docs_all |-> docs_all, raised |-> "none",
                visited |-> <<>>, loaded |-> <<>>]
       ELSE LET res == file_load(env, path, docs_all, outcome)
            IN [stack |-> Tail(stack),
                docs_all |-> res.docs_all, raised |-> res.raised,
                visited |-> <<path>>, loaded |-> res.loaded]

--------------------------------------------------------------------------
(* adjust_string *)

\* the characters cp932 cannot encode
NotInCp932 == {"EMOJI", "DAKUTEN"}

RECURSIVE NFC(_)
\* unicodedata.normalize('NFC', s): KA followed by the combining mark is GA
NFC(s) ==
    IF s = <<>> THEN <<>>
    ELSE IF Len(s) >= 2 /\ s[1] = "KA" /\ s[2] = "DAKUTEN"
         THEN <<"GA">> \o NFC(SubSeq(s, 3, Len(s)))
         ELSE <<s[1]>> \o NFC(Tail(s))

\* s.encode("cp932", "ignore").decode("cp932")
Cp932Ignore(s) == SelectSeq(s, LAMBDA c : c \notin NotInCp932)

adjust_string(platform, v) ==
    IF v.t # "str" THEN v
    ELSE IF platform = "win32" THEN StrV(Cp932Ignore(NFC(v.s)))
    ELSE v

\* the loop of process_rag over docs_all
NormalizeDocs(platform, docs) ==
    [i \in 1..Len(docs) |->
        Document(adjust_string(platform, StrV(docs[i].page_content)).s,
                 [key \in DOMAIN docs[i].metadata |->
                     adjust_string(platform, docs[i].metadata[key])])]

--------------------------------------------------------------------------
(* CharacterTextSplitter(chunk_size, chunk_overlap, separator="\n") *)

RECURSIVE SplitOn(_, _, _)
\* text.split(sep) without the empty pieces; cur is the piece being read
SplitOn(text, sep, cur) ==
    IF text = <<>> THEN (IF cur = <<>> THEN <<>> ELSE <<cur>>)
    ELSE IF text[1] = sep
         THEN (IF cur = <<>> THEN <<>> ELSE <<cur>>) \o SplitOn(Tail(text), sep, <<>>)
         ELSE SplitOn(Tail(text), sep, Append(cur, text[1]))

SepLen(current_doc, more) == IF Len(current_doc) > more THEN 1 ELSE 0

RECURSIVE DropForOverlap(_, _, _)
\* the while loop of _merge_splits: <<current_doc, total>> after it
DropForOverlap(current_doc, total, len) ==
    IF total > CHUNK_OVERLAP
         \/ (total + len + SepLen(current_doc, 0) > CHUNK_SIZE /\ total > 0)
    THEN DropForOverlap(Tail(current_doc),
                        total - (Len(current_doc[1]) + SepLen(current_doc, 1)), len)
    ELSE <<current_doc, total>>

RECURSIVE MergeSplits(_, _, _, _)
\* _merge_splits(splits, "\n")
MergeSplits(splits, docs, current_doc, total) ==
    IF splits = <<>>
    THEN IF current_doc = <<>> THEN docs
         ELSE Append(docs, JoinTexts(<<NL>>, current_doc))
    ELSE LET d == splits[1]
             len == Len(d)
             over == total + len + SepLen(current_doc, 0) > CHUNK_SIZE
                        /\ Len(current_doc) > 0
             flushed == IF over THEN Append(docs, JoinTexts(<<NL>>, current_doc))
                        ELSE docs
             kept == IF over THEN DropForOverlap(current_doc, total, len)
                     ELSE <<current_doc, total>>
             cur2 == Append(kept[1], d)
         IN MergeSplits(Tail(splits), flushed, cur2,
                        kept[2] + len + SepLen(cur2, 1))

split_text(text) == MergeSplits(SplitOn(text, NL, <<>>), <<>>, <<>>, 0)

\* text_splitter.split_documents(docs_all): every chunk carries its parent's metadata
split_documents(docs) ==
    Flatten([i \in 1..Len(docs) |->
                LET chunks == split_text(docs[i].page_content)
                IN [j \in 1..Len(chunks) |-> Document(chunks[j], docs[i].metadata)]])

--------------------------------------------------------------------------
(* State *)

VARIABLES
    platform,     \* sys.platform
    autoPersist,  \* whether the vector store writes at add time (TRUE) or at persist()
    dirExists,    \* os.path.exists(persist_directory)
    dirData,      \* the chunks of the index stored in persist_directory
    run,          \* run[r]: the locals of one execution of the __main__ job
    hist,         \* hist[r]: what run r has done (observations, never read by the code)
    last,         \* the run that began last: whether it has returned, and what it left
    begun         \* the number of runs begun so far

vars == <<platform, autoPersist, dirExists, dirData, run, hist, last, begun>>

NoRetriever == [k |-> 0, db |-> 0]

Info(msg) == [level |-> "info", msg |-> msg, e |-> ""]
Error(msg, e) == [level |-> "error", msg |-> msg, e |-> e]

NoRun ==
    [pc |-> "idle", env |-> EnvBare, stack |-> <<>>, docs_all |-> <<>>,
     web_docs_all |-> <<>>, url |-> 0, splitted_docs |-> <<>>,
     db |-> <<>>, retriever |-> NoRetriever, exc |-> "none", log |-> <<>>]

NoLast == [ok |-> FALSE, env |-> EnvBare, chunks |-> <<>>, data |-> <<>>]

NoHist ==
    [visited |-> <<>>,        \* the paths file_load was invoked on, in order
     loaderCalls |-> <<>>,    \* the paths and URLs a loader was invoked on, in order
     loadErr |-> "none",      \* the message a loader raised
     loadErrAt |-> 0,         \* the number of loader calls when it raised
     walkerOut |-> <<>>,      \* docs_all when recursive_file_check returned
     loaded |-> <<>>,         \* what load_data_sources returned
     failedAt |-> "none",     \* the step that raised
     tryErr |-> "none",       \* the message raised inside the try block
     tried |-> <<>>,          \* the steps of the try block entered, in order
     existedAtBegin |-> FALSE, \* dirExists when the run began
     dirAtBegin |-> <<>>,     \* dirData when the run began
     prev |-> NoLast,         \* `last` when the run began: the run before it
     wrote |-> FALSE,         \* the run has written its index
     during |-> {},           \* what other runs did to the directory during this run
     afterWrite |-> {},       \* ... and after this run wrote its index
     retExists |-> FALSE,     \* dirExists when process_rag returned
     retDir |-> <<>>]         \* dirData when process_rag returned

\* an index that an earlier job left in the directory
OldIndex == <<Document(<<"o">>, [source |-> StrV(<<"o", ".", "t", "x", "t">>)])>>

Resting == {"idle", "exit0", "exit1"}
Active(r) == run[r].pc \notin Resting \cup {"returned", "raised", "completed", "reraised"}

Init ==
    /\ platform \in {"win32", "linux"}
    /\ autoPersist \in BOOLEAN
    /\ dirExists \in BOOLEAN
    /\ dirData \in (IF dirExists THEN {<<>>, OldIndex} ELSE {<<>>})
    /\ run = [r \in Runs |-> NoRun]
    /\ hist = [r \in Runs |-> NoHist]
    /\ last = NoLast
    /\ begun = 0

\* hist after run r did op to the directory: the other active runs observe it
Touched(r, op) ==
    [q \in Runs |->
        IF q # r /\ Active(q)
        THEN [hist[q] EXCEPT !.during = @ \cup {op},
                            !.afterWrite = IF hist[q].wrote THEN @ \cup {op} ELSE @]
        ELSE hist[q]]

\* an exception that leaves process_rag without passing its except clause
Propagate(rr, e) == [rr EXCEPT !.pc = "raised", !.exc = e]

\* an except clause that logs the error and returns nothing
Except_Swallow(rr, e) ==
    [rr EXCEPT !.pc = "returned", !.log = Append(@, Error("vectorstore", e))]

\* except Exception as e: logger.error(... {e}); raise
Except(rr, e) ==
    [rr EXCEPT !.pc = "raised", !.exc = e,
               !.log = Append(@, Error("vectorstore", e))]

Outcomes == {"ok"} \cup Errors

--------------------------------------------------------------------------
(* process_rag up to the try block *)

\* a creation that starts from an empty directory
makedirs_Fresh(exists, data) == [exists |-> TRUE, data |-> <<>>]

\* os.makedirs(persist_directory, exist_ok=True): what the directory holds stays
makedirs(exists, data) == [exists |-> TRUE, data |-> IF exists THEN data ELSE <<>>]

\* __main__ calls process_rag: makedirs(persist_directory), then
\* load_data_sources starts recursive_file_check on the configured root
Begin(r, env) ==
    /\ run[r].pc \in Resting
    /\ begun < MaxBegins
    /\ begun' = begun + 1
    /\ run' = [run EXCEPT ![r] =
                  [NoRun EXCEPT !.pc = "walk", !.env = env, !.stack = <<env.root>>,
                                !.log = <<Info("persist_directory")>>]]
    /\ LET after == makedirs(dirExists, dirData)
       IN /\ dirExists' = after.exists
          /\ dirData' = after.data
    /\ hist' = [(IF dirExists THEN hist ELSE Touched(r, "makedirs")) EXCEPT ![r] =
                   [NoHist EXCEPT !.existedAtBegin = dirExists,
                                  !.dirAtBegin = dirData, !.prev = last]]
    /\ last' = [NoLast EXCEPT !.env = env]
    /\ UNCHANGED <<platform, autoPersist>>

\* one run at a time
BeginAlone(r) ==
    /\ \A q \in Runs : run[q].pc \in Resting
    /\ \E env \in Envs : Begin(r, env)

\* the environments of the overlapping runs
EnvsAny == {EnvFile(2), EnvPage}

\* no lock: each run begins once, whatever the other does
BeginAny(r) ==
    /\ run[r].pc = "idle"
    /\ \E env \in EnvsAny : Begin(r, env)

\* one call of recursive_file_check
WalkStep(r) ==
    /\ run[r].pc = "walk"
    /\ run[r].stack # <<>>
    /\ \E outcome \in Outcomes :
        LET res == recursive_file_check(run[r].env, run[r].stack,
                                        run[r].docs_all, outcome)
            err == IF res.loaded # <<>> /\ outcome # "ok" THEN outcome ELSE "none"
        IN /\ run' = [run EXCEPT ![r] =
                        IF res.raised # "none" THEN Propagate(@, res.raised)
                        ELSE [@ EXCEPT !.stack = res.stack, !.docs_all = res.docs_all]]
           /\ hist' = [hist EXCEPT ![r].visited = @ \o res.visited,
                                   ![r].loaderCalls = @ \o res.loaded,
                                   ![r].loadErr = IF err # "none" THEN err ELSE @,
                                   ![r].loadErrAt =
                                       IF err # "none"
                                       THEN Len(hist[r].loaderCalls \o res.loaded)
                                       ELSE @,
                                   ![r].failedAt =
                                       IF res.raised # "none" THEN "walk" ELSE @]
    /\ UNCHANGED <<platform, autoPersist, dirExists, dirData, last, begun>>

\* recursive_file_check has returned: web_docs_all = []
WalkReturn(r) ==
    /\ run[r].pc = "walk"
    /\ run[r].stack = <<>>
    /\ run' = [run EXCEPT ![r].pc = "web", ![r].web_docs_all = <<>>, ![r].url = 1]
    /\ hist' = [hist EXCEPT ![r].walkerOut = run[r].docs_all]
    /\ UNCHANGED <<platform, autoPersist, dirExists, dirData, last, begun>>

\* one iteration of the loop over ct.WEB_URL_LOAD_TARGETS
web_step(env, url, web_docs_all, outcome) ==
    IF outcome # "ok"
    THEN [web_docs_all |-> web_docs_all, raised |-> outcome]
    ELSE [web_docs_all |-> web_docs_all \o WebLoad(env.urls[url]), raised |-> "none"]

WebStep(r) ==
    /\ run[r].pc = "web"
    /\ run[r].url <= Len(run[r].env.urls)
    /\ \E outcome \in Outcomes :
        LET res == web_step(run[r].env, run[r].url, run[r].web_docs_all, outcome)
        IN /\ run' = [run EXCEPT ![r] =
                        IF res.raised # "none" THEN Propagate(@, res.raised)
                        ELSE [@ EXCEPT !.web_docs_all = res.web_docs_all,
                                       !.url = @ + 1]]
           /\ hist' = [hist EXCEPT ![r].loaderCalls =
                                       Append(@, run[r].env.urls[run[r].url]),
                                   ![r].loadErr = IF outcome # "ok" THEN outcome ELSE @,
                                   ![r].loadErrAt =
                                       IF outcome # "ok"
                                       THEN Len(hist[r].loaderCalls) + 1 ELSE @,
                                   ![r].failedAt =
                                       IF res.raised # "none" THEN "web" ELSE @]
    /\ UNCHANGED <<platform, autoPersist, dirExists, dirData, last, begun>>

RECURSIVE Dedup(_, _)
Dedup(docs, seen) ==
    IF docs = <<>> THEN <<>>
    ELSE IF docs[1] \in seen THEN Dedup(Tail(docs), seen)
    ELSE <<docs[1]>> \o Dedup(Tail(docs), seen \cup {docs[1]})

\* an aggregation that drops the documents it has already
aggregate_Dedup(docs_all, web_docs_all) == Dedup(docs_all \o web_docs_all, {})

\* docs_all.extend(web_docs_all); return docs_all
aggregate(docs_all, web_docs_all) == docs_all \o web_docs_all

\* load_data_sources returns; process_rag logs the count
LoadReturn(r) ==
    /\ run[r].pc = "web"
    /\ run[r].url > Len(run[r].env.urls)
    /\ LET docs == aggregate(run[r].docs_all, run[r].web_docs_all)
       IN /\ run' = [run EXCEPT ![r].pc = "normalize", ![r].docs_all = docs,
                                ![r].log = Append(@, Info("loaded"))]
          /\ hist' = [hist EXCEPT ![r].loaded = docs]
    /\ UNCHANGED <<platform, autoPersist, dirExists, dirData, last, begun>>

\* adjust_string on every page_content and every metadata value
Normalize(r) ==
    /\ run[r].pc = "normalize"
    /\ run' = [run EXCEPT ![r].pc = "split",
                          ![r].docs_all = NormalizeDocs(platform, @)]
    /\ UNCHANGED <<platform, autoPersist, dirExists, dirData, hist, last, begun>>

\* OpenAIEmbeddings(), CharacterTextSplitter(...), split_documents(docs_all)
Split(r) ==
    /\ run[r].pc = "split"
    /\ \E outcome \in Outcomes :
        /\ run' = [run EXCEPT ![r] =
                     IF outcome # "ok" THEN Propagate(@, outcome)
                     ELSE [@ EXCEPT !.pc = "exists",
                                    !.splitted_docs = split_documents(run[r].docs_all),
                                    !.log = Append(@, Info("splitted"))]]
        /\ hist' = [hist EXCEPT ![r].failedAt = IF outcome # "ok" THEN "split" ELSE @]
    /\ UNCHANGED <<platform, autoPersist, dirExists, dirData, last, begun>>

--------------------------------------------------------------------------
(* The try block of process_rag *)

\* run r leaves the try block by the exception e raised at step `at`;
\* h is hist with what the step did to the directory
Raised(r, e, at, h) ==
    /\ run' = [run EXCEPT ![r] = Except(@, e)]
    /\ hist' = [h EXCEPT ![r].failedAt = at, ![r].tryErr = e,
                         ![r].tried = Append(@, at)]

\* the test inverted: delete only what is not there
must_delete_Inverted(exists) == ~exists

\* if os.path.exists(persist_directory): whether the old index is deleted
must_delete(exists) == exists

CheckExists(r) ==
    /\ run[r].pc = "exists"
    /\ run' = [run EXCEPT ![r].pc = IF must_delete(dirExists) THEN "rmtree"
                                     ELSE "build"]
    /\ hist' = [hist EXCEPT ![r].tried = Append(@, "exists")]
    /\ UNCHANGED <<platform, autoPersist, dirExists, dirData, last, begun>>

\* a deletion that leaves the directory as it is
rmtree_Keep(exists, data) == [exists |-> exists, data |-> data]

\* shutil.rmtree(persist_directory): the directory and all it holds are gone
rmtree(exists, data) == [exists |-> FALSE, data |-> <<>>]

Rmtree(r) ==
    /\ run[r].pc = "rmtree"
    /\ \/ /\ dirExists
          /\ LET after == rmtree(dirExists, dirData)
             IN /\ dirExists' = after.exists
                /\ dirData' = after.data
          /\ run' = [run EXCEPT ![r].pc = "makedirs"]
          /\ hist' = [Touched(r, "rmtree") EXCEPT ![r].tried = Append(@, "rmtree")]
       \/ \* it fails part way: the directory stays, with or without its data
          /\ dirExists
          /\ \E e \in Errors, data \in {dirData, <<>>} :
              /\ dirData' = data
              /\ Raised(r, e, "rmtree",
                        IF data # dirData THEN Touched(r, "rmtree") ELSE hist)
          /\ UNCHANGED dirExists
       \/ \* the directory is gone since the check: FileNotFoundError
          /\ ~dirExists
          /\ Raised(r, "enoent", "rmtree", hist)
          /\ UNCHANGED <<dirExists, dirData>>
    /\ UNCHANGED <<platform, autoPersist, last, begun>>

\* os.makedirs(persist_directory, exist_ok=True); it logs the deletion
Makedirs(r) ==
    /\ run[r].pc = "makedirs"
    /\ \E outcome \in Outcomes :
        IF outcome = "ok"
        THEN /\ LET after == makedirs(dirExists, dirData)
                IN /\ dirExists' = after.exists
                   /\ dirData' = after.data
             /\ run' = [run EXCEPT ![r].pc = "build",
                                   ![r].log = Append(@, Info("deleted"))]
             /\ hist' = [(IF dirExists THEN hist ELSE Touched(r, "makedirs"))
                            EXCEPT ![r].tried = Append(@, "makedirs")]
        ELSE /\ Raised(r, outcome, "makedirs", hist)
             /\ UNCHANGED <<dirExists, dirData>>
    /\ UNCHANGED <<platform, autoPersist, last, begun>>

\* Chroma.from_documents(splitted_docs, embeddings, persist_directory): the
\* collection of the directory, with the chunks added to it
from_documents(exists, data, splitted_docs) ==
    (IF exists THEN data ELSE <<>>) \o splitted_docs

FromDocuments(r) ==
    /\ run[r].pc = "build"
    /\ \E outcome \in Outcomes :
        IF outcome = "ok"
        THEN LET db == from_documents(dirExists, dirData, run[r].splitted_docs)
             IN /\ run' = [run EXCEPT ![r].pc = "persist", ![r].db = db]
                /\ IF autoPersist
                   THEN /\ dirExists' = TRUE
                        /\ dirData' = db
                        /\ hist' = [Touched(r, "write") EXCEPT
                                       ![r].tried = Append(@, "build"),
                                       ![r].wrote = TRUE]
                   ELSE /\ UNCHANGED <<dirExists, dirData>>
                        /\ hist' = [hist EXCEPT ![r].tried = Append(@, "build")]
        ELSE /\ Raised(r, outcome, "build", hist)
             /\ UNCHANGED <<dirExists, dirData>>
    /\ UNCHANGED <<platform, autoPersist, last, begun>>

\* db.persist(); it logs the persistence
Persist(r) ==
    /\ run[r].pc = "persist"
    /\ \E outcome \in Outcomes :
        IF outcome = "ok"
        THEN /\ run' = [run EXCEPT ![r].pc = "verify",
                                   ![r].log = Append(@, Info("persisted"))]
             /\ IF autoPersist
                THEN /\ UNCHANGED <<dirExists, dirData>>
                     /\ hist' = [hist EXCEPT ![r].tried = Append(@, "persist")]
                ELSE /\ dirExists' = TRUE
                     /\ dirData' = run[r].db
                     /\ hist' = [Touched(r, "write") EXCEPT
                                    ![r].tried = Append(@, "persist"),
                                    ![r].wrote = TRUE]
        ELSE /\ Raised(r, outcome, "persist", hist)
             /\ UNCHANGED <<dirExists, dirData>>
    /\ UNCHANGED <<platform, autoPersist, last, begun>>

\* the check of the saved files: it only logs
Verify(r) ==
    /\ run[r].pc = "verify"
    /\ run' = [run EXCEPT ![r].pc = "retriever",
                          ![r].log = Append(@, IF dirExists THEN Info("files")
                                               ELSE Error("not_saved", ""))]
    /\ hist' = [hist EXCEPT ![r].tried = Append(@, "verify")]
    /\ UNCHANGED <<platform, autoPersist, dirExists, dirData, last, begun>>

\* return db.as_retriever(search_kwargs={"k": ct.SEARCH_K})
AsRetriever(r) ==
    /\ run[r].pc = "retriever"
    /\ \E outcome \in Outcomes :
        IF outcome = "ok"
        THEN /\ run' = [run EXCEPT ![r].pc = "returned",
                                   ![r].retriever = [k |-> SEARCH_K, db |-> r]]
             /\ hist' = [hist EXCEPT ![r].tried = Append(@, "retriever"),
                                     ![r].retExists = dirExists,
                                     ![r].retDir = dirData]
             /\ last' = [ok |-> TRUE, env |-> run[r].env,
                         chunks |-> run[r].splitted_docs, data |-> dirData]
        ELSE /\ Raised(r, outcome, "retriever", hist)
             /\ UNCHANGED last
    /\ UNCHANGED <<platform, autoPersist, dirExists, dirData, begun>>

--------------------------------------------------------------------------
(* __main__ *)

\* logger.info: the processing completed
MainSuccess(r) ==
    /\ run[r].pc = "returned"
    /\ run' = [run EXCEPT ![r].pc = "completed",
                          ![r].log = Append(@, Info("completed"))]
    /\ UNCHANGED <<platform, autoPersist, dirExists, dirData, hist, last, begun>>

\* except Exception as e: logger.error(... {e}); raise
MainFailure(r) ==
    /\ run[r].pc = "raised"
    /\ run' = [run EXCEPT ![r].pc = "reraised",
                          ![r].log = Append(@, Error("rag", run[r].exc))]
    /\ UNCHANGED <<platform, autoPersist, dirExists, dirData, hist, last, begun>>

\* the job ends, with status 0 or by the exception: its memory is gone
Exit(r) ==
    /\ run[r].pc \in {"completed", "reraised"}
    /\ run' = [run EXCEPT ![r] =
                  [NoRun EXCEPT !.pc = IF run[r].pc = "completed" THEN "exit0"
                                       ELSE "exit1"]]
    /\ hist' = [hist EXCEPT ![r] = NoHist]
    /\ UNCHANGED <<platform, autoPersist, dirExists, dirData, last, begun>>

--------------------------------------------------------------------------
(* Specifications *)

Step(r) ==
    \/ WalkStep(r) \/ WalkReturn(r) \/ WebStep(r) \/ LoadReturn(r)
    \/ Normalize(r) \/ Split(r)
    \/ CheckExists(r) \/ Rmtree(r) \/ Makedirs(r) \/ FromDocuments(r)
    \/ Persist(r) \/ Verify(r) \/ AsRetriever(r)
    \/ MainSuccess(r) \/ MainFailure(r) \/ Exit(r)

\* the runs follow one another
Next == \E r \in Runs : BeginAlone(r) \/ Step(r)

Spec == Init /\ [][Next]_vars

\* load_data_sources up to the end of recursive_file_check, and no further:
\* the interpreter goes on calling while a call is pending
Walk(r) == WalkStep(r) \/ WalkReturn(r)

NextWalk == \E r \in Runs : BeginAlone(r) \/ Walk(r)

WalkSpec == Init /\ [][NextWalk]_vars /\ \A r \in Runs : WF_vars(Walk(r))

\* the runs overlap freely
NextAny == \E r \in Runs : BeginAny(r) \/ Step(r)

SpecAny == Init /\ [][NextAny]_vars

--------------------------------------------------------------------------
(* Properties of the persistence directory *)

Range(seq) == {seq[i] : i \in 1..Len(seq)}

\* the steps of process_rag before its try block
BeforeTry == {"walk", "web", "split"}

\* C1: with runs that follow one another, whenever the run that began last
\* has returned a retriever, the directory exists and its index holds exactly
\* the chunks of that run, in order, and nothing of an earlier run.
C1_IndexIsLastRun == last.ok => dirExists /\ dirData = last.chunks

\* C1 happens: a run has returned where the directory held another, non-empty
\* index when the run began, and now holds this run's chunks alone.
C1_Witness ==
    \E r \in Runs :
        /\ run[r].pc = "returned"
        /\ hist[r].dirAtBegin # <<>>
        /\ run[r].splitted_docs # <<>>
        /\ Range(hist[r].dirAtBegin) \cap Range(run[r].splitted_docs) = {}
        /\ dirData = run[r].splitted_docs

\* C2: when a run returns a retriever and the run before it had returned one
\* for the same corpus and URL list, the directory holds what it held when
\* that earlier run returned: nothing is added, nothing is duplicated.
C2_RebuildIdempotent ==
    \A r \in Runs :
        (run[r].pc = "returned" /\ hist[r].prev.ok /\ hist[r].prev.env = run[r].env)
            => dirData = hist[r].prev.data

\* C2 happens: the second of two runs over the same inputs has returned, the
\* first having left a non-empty index.
C2_Witness ==
    \E r \in Runs :
        /\ run[r].pc = "returned"
        /\ hist[r].prev.ok
        /\ hist[r].prev.env = run[r].env
        /\ hist[r].prev.data # <<>>

\* run r returned a retriever while the directory did not hold exactly its chunks
ReturnedUnsafe(r) ==
    /\ run[r].pc \in {"returned", "completed"}
    /\ ~hist[r].retExists \/ hist[r].retDir # run[r].splitted_docs

\* C3: with two overlapping runs, a run returns a retriever over a directory
\* that does not hold exactly its chunks only when the other run has created,
\* deleted or written the directory during it.
C3_UnsafeOnlyByOverlap ==
    \A r \in Runs : ReturnedUnsafe(r) => hist[r].during # {}

\* C3 happens: a run has returned a retriever after the other run's rmtree
\* deleted the index it had written.
C3_Witness ==
    \E r \in Runs :
        /\ run[r].pc = "returned"
        /\ "rmtree" \in hist[r].afterWrite
        /\ run[r].splitted_docs # <<>>
        /\ Range(run[r].splitted_docs) \cap Range(hist[r].retDir) = {}

\* C10: a run that raised while loading, normalizing or chunking has left the
\* directory with the contents it had when the run began; so a directory that
\* differs from its contents at the beginning of a failed run means that the
\* run failed inside the try block.
C10_EarlyFailureKeepsIndex ==
    \A r \in Runs :
        (run[r].pc \in {"raised", "reraised"} /\ hist[r].failedAt \in BeforeTry)
            => dirExists /\ dirData = hist[r].dirAtBegin

\* C10 happens: a run has failed before the try block over a directory that
\* held a non-empty index.
C10_Witness ==
    \E r \in Runs :
        /\ run[r].pc = "raised"
        /\ hist[r].failedAt = "split"
        /\ hist[r].existedAtBegin
        /\ hist[r].dirAtBegin # <<>>

--------------------------------------------------------------------------
(* Properties of the failures *)

\* the number of entries of the log with the message msg
Logged(log, msg) == Cardinality({i \in 1..Len(log) : log[i].msg = msg})

NoDuplicates(seq) == \A i, j \in 1..Len(seq) : i # j => seq[i] # seq[j]

\* C4: once the loader of a file or the fetch of a URL has raised, the run has
\* left process_rag by that exception without passing an except clause of
\* process_rag: the failing call is the last loader call (no later file or
\* URL, no second attempt), load_data_sources has returned nothing, nothing
\* was chunked, the try block was not entered and there is no retriever.
C4_LoadFailureAborts ==
    \A r \in Runs :
        hist[r].loadErr # "none" =>
            /\ run[r].pc \in {"raised", "reraised"}
            /\ run[r].exc = hist[r].loadErr
            /\ hist[r].failedAt \in {"walk", "web"}
            /\ Len(hist[r].loaderCalls) = hist[r].loadErrAt
            /\ hist[r].loaded = <<>>
            /\ run[r].splitted_docs = <<>>
            /\ hist[r].tried = <<>>
            /\ Logged(run[r].log, "vectorstore") = 0
            /\ run[r].retriever = NoRetriever

\* C4 happens: a loader has raised on a file while other paths were still
\* pending and URLs were still to fetch.
C4_Witness ==
    \E r \in Runs :
        /\ hist[r].loadErr # "none"
        /\ hist[r].failedAt = "walk"
        /\ Len(run[r].stack) >= 2
        /\ run[r].env.urls # <<>>
        /\ run[r].pc = "reraised"

\* the steps of the try block that can raise
TrySteps == {"rmtree", "makedirs", "build", "persist", "retriever"}

\* C5: once a step of the try block has raised, the run has left process_rag
\* by that same exception, the log of process_rag holds exactly one error
\* entry for it, with the exception's message, no step of the try block was
\* entered twice, there is no retriever, and when __main__ has handled the
\* exception too the log ends with its error entry, with the same message.
C5_TryFailureLoggedAndRaised ==
    \A r \in Runs :
        hist[r].tryErr # "none" =>
            /\ run[r].pc \in {"raised", "reraised"}
            /\ run[r].exc = hist[r].tryErr
            /\ hist[r].failedAt \in TrySteps
            /\ Logged(run[r].log, "vectorstore") = 1
            /\ Error("vectorstore", hist[r].tryErr) \in Range(run[r].log)
            /\ NoDuplicates(hist[r].tried)
            /\ hist[r].tried[Len(hist[r].tried)] = hist[r].failedAt
            /\ run[r].retriever = NoRetriever
            /\ run[r].pc = "reraised" =>
                   /\ run[r].log[Len(run[r].log)] = Error("rag", hist[r].tryErr)
                   /\ Logged(run[r].log, "rag") = 1

\* C5 happens: building the vector store has raised and __main__ has logged it.
C5_Witness ==
    \E r \in Runs :
        /\ hist[r].tryErr \in Errors
        /\ hist[r].failedAt = "build"
        /\ run[r].pc = "reraised"

--------------------------------------------------------------------------
(* Properties of file_load and load_data_sources *)

\* run r is about to call file_load on path
AtFile(r, path) ==
    /\ run[r].pc = "walk"
    /\ run[r].stack # <<>>
    /\ path = Head(run[r].stack)
    /\ ~isdir(run[r].env, path)

Supported(path) == splitext(path)[2] \in DOMAIN SUPPORTED_EXTENSIONS

\* C6: a call of file_load on a path whose extension is not a key of
\* SUPPORTED_EXTENSIONS leaves docs_all as it is, invokes no loader and raises
\* nothing: the walk goes on with the next path.
C6_UnsupportedSkipped ==
    [][\A r \in Runs : \A path \in DOMAIN run[r].env.fs :
          (AtFile(r, path) /\ ~Supported(path) /\ run'[r] # run[r])
              => /\ run'[r].docs_all = run[r].docs_all
                 /\ run'[r].pc = "walk"
                 /\ run'[r].exc = "none"
                 /\ run'[r].stack = Tail(run[r].stack)
                 /\ hist'[r].loaderCalls = hist[r].loaderCalls
                 /\ hist'[r].visited = Append(hist[r].visited, path)]_vars

\* C6 happens: file_load has just been called on d/s/t/e.CSV, whose
\* extension differs from .csv by its case only.
C6_Witness ==
    \E r \in Runs :
        /\ run[r].pc = "walk"
        /\ hist[r].visited # <<>>
        /\ hist[r].visited[Len(hist[r].visited)]
               = join(join(join(D, S_DIR), T_DIR), E_CSV_UPPER)
        /\ Len(hist[r].loaderCalls) = 2

\* C7: a call of file_load on a .csv file whose loader returns appends one
\* Document: the records' contents in order, joined by newlines, with the
\* metadata {source: path}; on a file of another supported extension it
\* appends the loader's documents as they are, in order.
C7_CsvIsOneDocument ==
    [][\A r \in Runs : \A path \in DOMAIN run[r].env.fs :
          (AtFile(r, path) /\ Supported(path) /\ run'[r].pc = "walk"
                /\ run'[r] # run[r])
              => LET ext == splitext(path)[2]
                     recs == run[r].env.fs[path].recs
                 IN IF ext = CSV
                    THEN run'[r].docs_all =
                            Append(run[r].docs_all,
                                   Document(JoinTexts(<<NL>>, recs),
                                            [source |-> StrV(path)]))
                    ELSE run'[r].docs_all =
                            run[r].docs_all
                              \o LoaderLoad(SUPPORTED_EXTENSIONS[ext], run[r].env, path)]_vars

\* C7 happens: the walk of the nested tree is over; docs_all holds the
\* document of a.txt, the two pages of c.pdf and, for b.csv with its MaxRows
\* records, one Document.
C7_Witness ==
    \E r \in Runs :
        /\ run[r].pc = "web"
        /\ run[r].env = EnvTree(MaxRows)
        /\ Len(run[r].docs_all) = 4
        /\ run[r].docs_all[4].metadata = [source |-> StrV(join(D, B_CSV))]
        /\ Len(SplitOn(run[r].docs_all[4].page_content, NL, <<>>)) > MaxRows

\* C8: what load_data_sources returns is the documents of the walk followed
\* by the documents of the URLs, these in the order of the URL list; its
\* length is the sum of the two lengths.
C8_FilesThenWeb ==
    \A r \in Runs :
        run[r].pc = "normalize" =>
            /\ run[r].docs_all = hist[r].walkerOut \o run[r].web_docs_all
            /\ hist[r].loaded = run[r].docs_all
            /\ run[r].web_docs_all =
                  Flatten([i \in 1..Len(run[r].env.urls) |-> WebLoad(run[r].env.urls[i])])
            /\ Len(run[r].docs_all)
                  = Len(hist[r].walkerOut) + Len(run[r].web_docs_all)

\* C8 happens: load_data_sources has returned the documents of files and of
\* three URLs, two of them the same.
C8_Witness ==
    \E r \in Runs :
        /\ run[r].pc = "normalize"
        /\ Len(hist[r].walkerOut) >= 3
        /\ Len(run[r].web_docs_all) = 3
        /\ run[r].web_docs_all[1] = run[r].web_docs_all[3]

--------------------------------------------------------------------------
(* Properties of recursive_file_check *)

\* the non-directory paths of an environment: all lie under its root
Files(env) == {p \in DOMAIN env.fs : ~env.fs[p].isdir}

\* the directory that lists path, and the place of path in its listing
Parent(env, path) ==
    CHOOSE d \in DOMAIN env.fs :
        /\ env.fs[d].isdir
        /\ \E i \in 1..Len(env.fs[d].entries) : join(d, env.fs[d].entries[i]) = path

Place(env, path) ==
    LET d == Parent(env, path)
    IN CHOOSE i \in 1..Len(env.fs[d].entries) : join(d, env.fs[d].entries[i]) = path

RECURSIVE Places(_, _)
\* the places in the listings on the way from the root down to path
Places(env, path) ==
    IF path = env.root THEN <<>>
    ELSE Append(Places(env, Parent(env, path)), Place(env, path))

\* a comes before b in pre-order, the entries of a directory in listing order
Before(env, a, b) ==
    LET pa == Places(env, a)
        pb == Places(env, b)
    IN \E k \in 1..Len(pa) :
          /\ k <= Len(pb)
          /\ pa[k] < pb[k]
          /\ \A j \in 1..(k - 1) : pa[j] = pb[j]

\* file_load was invoked on files only, each once, in pre-order
InPreorder(r) ==
    /\ Range(hist[r].visited) \subseteq Files(run[r].env)
    /\ \A i, j \in 1..Len(hist[r].visited) :
          i < j => Before(run[r].env, hist[r].visited[i], hist[r].visited[j])

\* recursive_file_check on the root is over in run r
WalkOver(r) == run[r].pc \notin Resting \cup {"walk"}

\* the paths still to visit: the nodes under the paths of the stack
RECURSIVE Under(_, _)
Under(env, path) ==
    IF isdir(env, path)
    THEN LET files == listdir(env, path)
         IN 1 + Len(Flatten([i \in 1..Len(files) |->
                                [k \in 1..Under(env, join(path, files[i])) |-> k]]))
    ELSE 1

Pending(r) ==
    Len(Flatten([i \in 1..Len(run[r].stack) |->
                    [k \in 1..Under(run[r].env, run[r].stack[i]) |-> k]]))

\* C9 as stated: once recursive_file_check is over, file_load has been
\* invoked exactly once on every non-directory path under the root, and on no
\* other path.
C9_AllFilesAtTermination ==
    \A r \in Runs :
        WalkOver(r) =>
            /\ NoDuplicates(hist[r].visited)
            /\ Range(hist[r].visited) = Files(run[r].env)

\* the safety part of C9 as amended
C9_Visits ==
    \A r \in Runs :
        /\ run[r].pc \notin Resting => InPreorder(r)
        /\ (WalkOver(r) /\ hist[r].failedAt # "walk")
              => Range(hist[r].visited) = Files(run[r].env)
        /\ (WalkOver(r) /\ hist[r].failedAt = "walk")
              => LET failing == hist[r].visited[Len(hist[r].visited)]
                 IN Range(hist[r].visited) =
                        {f \in Files(run[r].env) :
                            f = failing \/ Before(run[r].env, f, failing)}

\* C9 (amended): on every finite tree recursive_file_check comes to an end.
\* file_load is invoked on non-directory paths only, each at most once, in
\* pre-order with the entries of a directory in listing order.  When the walk
\* returns, it has been invoked on every non-directory path under the root;
\* when a loader raises, the walk ends there, and it has been invoked on the
\* non-directory paths up to and including the one whose loader raised.  Each
\* call takes one path off the paths still to visit, which are finitely many.
C9_WalkVisitsAndEnds ==
    /\ []C9_Visits
    /\ [][\A r \in Runs :
            (run[r].pc = "walk" /\ run'[r] # run[r] /\ run'[r].pc = "walk")
                => Pending(r)' < Pending(r)]_vars
    /\ \A r \in Runs : (run[r].pc = "walk") ~> (run[r].pc # "walk")

\* C9 happens: the walk of the nested tree has returned after four calls of
\* file_load, the second on a file three directories deep.
C9_Witness ==
    \E r \in Runs :
        /\ run[r].pc = "web"
        /\ run[r].env = EnvTree(MaxRows)
        /\ Len(hist[r].visited) = 4
        /\ hist[r].visited[2] = join(join(join(D, S_DIR), T_DIR), C_PDF)

====
